---- MODULE Spec2Model ----
(***************************************************************************)
(* Proof-of-timestamp contract (src/src/lib.rs): a persistent map from     *)
(* file hash to TimestampedFile, with the two calls stamp and get_stamp.   *)
(* Strings are modelled as the sequences of their UTF-8 bytes, which is    *)
(* what the contract hands to env::log and env::keccak256 (.as_bytes()).   *)
(***************************************************************************)
EXTENDS Integers, Sequences, FiniteSets, TLC

\* Largest number of stamp calls explored in one behaviour.
MaxStamps == 2

\* The file hashes clients pass: "", "a" and "a1".
FileHashes == { <<>>, <<97>>, <<97, 49>> }

\* The block timestamps the host supplies to a call.
BlockTimestamps == {0, 2, 12}

(***************************************************************************)
(* u64::to_string and the two format! calls of stamp.                      *)
(***************************************************************************)
RECURSIVE to_string(_)
to_string(n) ==
    IF n < 10 THEN << 48 + n >>
    ELSE to_string(n \div 10) \o << 48 + (n % 10) >>

\* Variant: the file hash is length-prefixed, so no two (hash, timestamp)
\* pairs give the same bytes.
format_hash_input_length_prefixed(file_hash, timestamp) ==
    << Len(file_hash) >> \o file_hash \o to_string(timestamp)

\* Variant: the timestamp is written before the file hash.
format_hash_input_swapped(file_hash, timestamp) == to_string(timestamp) \o file_hash

\* format!("{}{}", file_hash, block_timestamp.to_string())
format_hash_input(file_hash, timestamp) == file_hash \o to_string(timestamp)

\* format!("Stamping file '{}' at '{}'", file_hash, block_timestamp)
format_log(file_hash, timestamp) ==
    << 83, 116, 97, 109, 112, 105, 110, 103, 32, 102, 105, 108, 101, 32, 39 >>
        \o file_hash \o << 39, 32, 97, 116, 32, 39 >>
        \o to_string(timestamp) \o << 39 >>

(***************************************************************************)
(* env::keccak256: Keccak-256 (rate 136 bytes, padding 0x01 .. 0x80,       *)
(* 32-byte digest).  A 64-bit lane is the set of its one-bit positions.    *)
(***************************************************************************)
Bits == 0..63
Xor(a, b) == {i \in Bits : (i \in a) # (i \in b)}
Rotl(a, n) == {i \in Bits : ((i + 64 - n) % 64) \in a}
AndNot(a, b, c) == {i \in Bits : (i \in a) # ((i \notin b) /\ (i \in c))}

RC == << {0}, {1, 7, 15}, {1, 3, 7, 15, 63}, {15, 31, 63}, {0, 1, 3, 7, 15},
         {0, 31}, {0, 7, 15, 31, 63}, {0, 3, 15, 63}, {1, 3, 7}, {3, 7},
         {0, 3, 15, 31}, {1, 3, 31}, {0, 1, 3, 7, 15, 31}, {0, 1, 3, 7, 63},
         {0, 3, 7, 15, 63}, {0, 1, 15, 63}, {1, 15, 63}, {7, 63}, {1, 3, 15},
         {1, 3, 31, 63}, {0, 7, 15, 31, 63}, {7, 15, 63}, {0, 31}, {3, 15, 31, 63} >>

\* RHO[x + 5*y + 1]
RHO == <<  0,  1, 62, 28, 27,
          36, 44,  6, 55, 20,
           3, 10, 43, 25, 39,
          41, 45, 15, 21,  8,
          18,  2, 61, 56, 14 >>

Lane(A, x, y) == A[(x % 5) + 5 * (y % 5) + 1]

Tuple5(F(_)) == << F(0), F(1), F(2), F(3), F(4) >>
Tuple25(F(_)) == << F(0), F(1), F(2), F(3), F(4), F(5), F(6), F(7), F(8), F(9),
                    F(10), F(11), F(12), F(13), F(14), F(15), F(16), F(17), F(18), F(19),
                    F(20), F(21), F(22), F(23), F(24) >>

Round(A, r) ==
    LET c(x) == Xor(Xor(Xor(Xor(Lane(A, x, 0), Lane(A, x, 1)), Lane(A, x, 2)), Lane(A, x, 3)), Lane(A, x, 4))
        C == Tuple5(c)
        d(x) == Xor(C[((x + 4) % 5) + 1], Rotl(C[((x + 1) % 5) + 1], 1))
        D == Tuple5(d)
        t(i) == Xor(A[i + 1], D[(i % 5) + 1])
        T == Tuple25(t)
        b(i) == LET X == i % 5
                    Y == i \div 5
                    x == (X + 3 * Y) % 5
                    y == X
                IN Rotl(T[x + 5 * y + 1], RHO[x + 5 * y + 1])
        B == Tuple25(b)
        e(i) == LET X == i % 5
                    Y == i \div 5
                    E0 == AndNot(B[i + 1], Lane(B, X + 1, Y), Lane(B, X + 2, Y))
                IN IF i = 0 THEN Xor(E0, RC[r + 1]) ELSE E0
    IN Tuple25(e)

RECURSIVE KeccakF(_, _)
KeccakF(A, r) ==
    IF r = 24 THEN A
    ELSE LET A1 == Round(A, r)
         IN IF Len(A1) = 25 THEN KeccakF(A1, r + 1) ELSE A1

Rate == 136
Pow2(k) == CASE k = 0 -> 1 [] k = 1 -> 2 [] k = 2 -> 4 [] k = 3 -> 8
             [] k = 4 -> 16 [] k = 5 -> 32 [] k = 6 -> 64 [] k = 7 -> 128
ByteBit(b, k) == ((b \div Pow2(k)) % 2) = 1

Pad(msg) ==
    LET L == Len(msg)
        N == ((L \div Rate) + 1) * Rate
    IN [i \in 1..N |-> IF i <= L THEN msg[i]
                       ELSE (IF i = L + 1 THEN 1 ELSE 0) + (IF i = N THEN 128 ELSE 0)]

BlockLane(p, off, i) ==
    IF i >= Rate \div 8 THEN {}
    ELSE {j \in Bits : ByteBit(p[off + 8 * i + (j \div 8) + 1], j % 8)}

RECURSIVE Absorb(_, _, _)
Absorb(A, p, off) ==
    IF off >= Len(p) THEN A
    ELSE LET m(i) == Xor(A[i + 1], BlockLane(p, off, i))
         IN Absorb(KeccakF(Tuple25(m), 0), p, off + Rate)

LaneByte(l, b) ==
    (IF 8 * b \in l THEN 1 ELSE 0) + (IF 8 * b + 1 \in l THEN 2 ELSE 0)
  + (IF 8 * b + 2 \in l THEN 4 ELSE 0) + (IF 8 * b + 3 \in l THEN 8 ELSE 0)
  + (IF 8 * b + 4 \in l THEN 16 ELSE 0) + (IF 8 * b + 5 \in l THEN 32 ELSE 0)
  + (IF 8 * b + 6 \in l THEN 64 ELSE 0) + (IF 8 * b + 7 \in l THEN 128 ELSE 0)

KeccakSponge(msg) ==
    LET z(i) == {}
        A == Absorb(Tuple25(z), Pad(msg), 0)
    IN [k \in 1..32 |-> LaneByte(A[((k - 1) \div 8) + 1], (k - 1) % 8)]

\* The digests of the messages stamp can build from the inputs above,
\* computed once.
KeccakDigests ==
    { << m, KeccakSponge(m) >> :
        m \in { format_hash_input(h, t) : h \in FileHashes, t \in BlockTimestamps } }

keccak256(msg) ==
    IF \E p \in KeccakDigests : p[1] = msg
    THEN (CHOOSE p \in KeccakDigests : p[1] = msg)[2]
    ELSE KeccakSponge(msg)

(***************************************************************************)
(* Data model.                                                             *)
(***************************************************************************)
\* Variant: a default whose hash is 32 zero bytes instead of an empty vector.
TimestampedFile_default_zeroed ==
    [timestamp |-> 0, time_stamped_file_hash |-> [i \in 1..32 |-> 0]]

\* TimestampedFile::default()
TimestampedFile_default == [timestamp |-> 0, time_stamped_file_hash |-> <<>>]

\* Variant: the first value of a key wins (entry(key).or_insert(value)).
insert_if_absent(map, key, value) ==
    [k \in (DOMAIN map) \cup {key} |-> IF k \in DOMAIN map THEN map[k] ELSE value]

\* Variant: the map is replaced by one holding only the new entry.
insert_replacing_map(map, key, value) == [k \in {key} |-> value]

\* HashMap::insert: replaces the value of a present key.
insert(map, key, value) ==
    [k \in (DOMAIN map) \cup {key} |-> IF k = key THEN value ELSE map[k]]

\* Variant: only the file hash is hashed, the timestamp is left out.
stamp_record_hash_only(file_hash, t) ==
    [timestamp |-> t, time_stamped_file_hash |-> keccak256(file_hash)]

\* Variant: the digest is never filled in.
stamp_record_empty_hash(file_hash, t) ==
    [timestamp |-> t, time_stamped_file_hash |-> << >>]

\* The record stamp builds for file_hash when the block timestamp is t.
stamp_record(file_hash, t) ==
    [timestamp |-> t,
     time_stamped_file_hash |-> keccak256(format_hash_input(file_hash, t))]

\* Variant: the lookup is unwrapped, so a missing key panics.
get_stamp_value_unwrap(recs, file_hash) ==
    IF file_hash \in DOMAIN recs THEN recs[file_hash]
    ELSE [panic |-> "unwrap on None"]

\* Variant: the reference into the map is returned in place of its clone.
get_stamp_value_ref(recs, file_hash) ==
    IF file_hash \in DOMAIN recs THEN [ref |-> file_hash]
    ELSE TimestampedFile_default

\* The value get_stamp returns for file_hash on the map recs.
get_stamp_value(recs, file_hash) ==
    IF file_hash \in DOMAIN recs THEN recs[file_hash] ELSE TimestampedFile_default

VARIABLES
    records,          \* ProofOfTimestamp.records
    log,              \* the lines handed to env::log, oldest first
    block_timestamp,  \* env::block_timestamp() of the last call's context
    last_call,        \* the last call executed: [op, file_hash]
    result,           \* its return value: <<>> for (), <<v>> for a value v
    history,          \* the (file_hash, timestamp) pairs of the stamp calls
    replica_records,  \* records of a second, independent contract instance
    replica_block_timestamp,  \* block timestamp of the second instance's last call
    pending,          \* per client, its call in flight: issued or running, the
                      \* contract state the running call loaded, and the number
                      \* of stamps completed before the call was issued
    overlap,          \* stamps completed while the last completed call was in flight
    held,             \* the TimestampedFile a caller got from get_stamp and kept:
                      \* << >> or <<[file_hash, value, taken_at, modified]>>
    observed          \* per key, its first get_stamp result since its last stamp,
                      \* and the number of stamp calls made before that read

\* The clients that issue calls concurrently.
Clients == {1, 2}

\* A client with no call in flight.
Idle == [op |-> "idle", file_hash |-> << >>, seen |-> 0, phase |-> "idle",
         loaded |-> << >>]

ledger_vars == << records, log, block_timestamp, last_call, result, history,
                 replica_records, replica_block_timestamp, observed >>

vars == << records, log, block_timestamp, last_call, result, history,
          replica_records, replica_block_timestamp, pending, overlap, held,
          observed >>

\* ProofOfTimestamp::default() in a fresh context, for both instances.
Init ==
    /\ records = << >>
    /\ log = << >>
    /\ block_timestamp \in BlockTimestamps
    /\ last_call = [op |-> "default", file_hash |-> << >>]
    /\ result = << >>
    /\ history = << >>
    /\ replica_records = << >>
    /\ replica_block_timestamp \in BlockTimestamps
    /\ pending = [c \in Clients |-> Idle]
    /\ overlap = 0
    /\ held = << >>
    /\ observed = << >>

\* Variant: the log line carries the timestamp of the previous call's block.
stamp_stale_log(file_hash, t) ==
    /\ Len(history) < MaxStamps
    /\ block_timestamp' = t
    /\ log' = Append(log, format_log(file_hash, block_timestamp))
    /\ records' = insert(records, file_hash, stamp_record(file_hash, t))
    /\ result' = << >>
    /\ last_call' = [op |-> "stamp", file_hash |-> file_hash]
    /\ history' = Append(history, [file_hash |-> file_hash, timestamp |-> t])
    /\ replica_block_timestamp' = t
    /\ replica_records' = insert(replica_records, file_hash, stamp_record(file_hash, t))
    /\ observed' = [k \in (DOMAIN observed) \ {file_hash} |-> observed[k]]

\* A call of stamp(file_hash) in a block whose timestamp is t.  The second
\* instance is given the same call; it is never read.
stamp(file_hash, t) ==
    /\ Len(history) < MaxStamps
    /\ block_timestamp' = t
    /\ log' = Append(log, format_log(file_hash, t))
    /\ records' = insert(records, file_hash, stamp_record(file_hash, t))
    /\ result' = << >>
    /\ last_call' = [op |-> "stamp", file_hash |-> file_hash]
    /\ history' = Append(history, [file_hash |-> file_hash, timestamp |-> t])
    /\ replica_block_timestamp' = t
    /\ replica_records' = insert(replica_records, file_hash, stamp_record(file_hash, t))
    /\ observed' = [k \in (DOMAIN observed) \ {file_hash} |-> observed[k]]

\* Variant: the lookup stores the default for a missing key
\* (entry(file_hash).or_default()).
get_stamp_or_default(file_hash, t) ==
    /\ block_timestamp' = t
    /\ result' = << get_stamp_value(records, file_hash) >>
    /\ last_call' = [op |-> "get_stamp", file_hash |-> file_hash]
    /\ observed' =
          IF file_hash \in DOMAIN observed THEN observed
          ELSE insert(observed, file_hash,
                      [value |-> get_stamp_value(records, file_hash),
                       at |-> Len(history)])
    /\ records' = IF file_hash \in DOMAIN records THEN records
                  ELSE insert(records, file_hash, TimestampedFile_default)
    /\ UNCHANGED << log, history, replica_records, replica_block_timestamp >>

\* Variant: the lookup takes the record out of the map (remove instead of get).
get_stamp_remove(file_hash, t) ==
    /\ block_timestamp' = t
    /\ result' = << get_stamp_value(records, file_hash) >>
    /\ last_call' = [op |-> "get_stamp", file_hash |-> file_hash]
    /\ observed' =
          IF file_hash \in DOMAIN observed THEN observed
          ELSE insert(observed, file_hash,
                      [value |-> get_stamp_value(records, file_hash),
                       at |-> Len(history)])
    /\ records' = [k \in (DOMAIN records) \ {file_hash} |-> records[k]]
    /\ UNCHANGED << log, history, replica_records, replica_block_timestamp >>

\* A call of get_stamp(file_hash) in a block whose timestamp is t.
get_stamp(file_hash, t) ==
    /\ block_timestamp' = t
    /\ result' = << get_stamp_value(records, file_hash) >>
    /\ last_call' = [op |-> "get_stamp", file_hash |-> file_hash]
    /\ observed' =
          IF file_hash \in DOMAIN observed THEN observed
          ELSE insert(observed, file_hash,
                      [value |-> get_stamp_value(records, file_hash),
                       at |-> Len(history)])
    /\ UNCHANGED << records, log, history, replica_records, replica_block_timestamp >>

\* Calls made one after the other: no call is ever in flight.
Stamp ==
    \E file_hash \in FileHashes, t \in BlockTimestamps :
        stamp(file_hash, t) /\ UNCHANGED << pending, overlap, held >>
GetStamp ==
    \E file_hash \in FileHashes, t \in BlockTimestamps :
        get_stamp(file_hash, t) /\ UNCHANGED << pending, overlap, held >>

Next == Stamp \/ GetStamp

Spec == Init /\ [][Next]_vars

(***************************************************************************)
(* The same calls under a Time Source that never goes backwards: the block *)
(* timestamp of a call is at least that of the call before it.             *)
(***************************************************************************)
MonotonicStamp ==
    \E file_hash \in FileHashes, t \in BlockTimestamps :
        t >= block_timestamp /\ stamp(file_hash, t) /\ UNCHANGED << pending, overlap, held >>

MonotonicGetStamp ==
    \E file_hash \in FileHashes, t \in BlockTimestamps :
        t >= block_timestamp /\ get_stamp(file_hash, t) /\ UNCHANGED << pending, overlap, held >>

NextMonotonic == MonotonicStamp \/ MonotonicGetStamp

SpecMonotonic == Init /\ [][NextMonotonic]_vars

(***************************************************************************)
(* Concurrent clients.  A call is a read-modify-write of the persisted     *)
(* contract: the state is deserialized when the call starts, the method    *)
(* runs on that copy, and the copy is serialized back when a stamp ends.   *)
(* Clients issue calls while other calls are in flight; the host starts a  *)
(* call only when no other call is running.                                *)
(***************************************************************************)
\* The file hashes and block timestamps of the concurrent calls.
ConcurrentHashes == { << 97 >>, << 97, 49 >> }
ConcurrentTimestamps == {2, 12}

\* A client submits a call.
IssueCall(c, op, file_hash) ==
    /\ pending[c] = Idle
    /\ pending' = [pending EXCEPT ![c] =
                      [op |-> op, file_hash |-> file_hash, seen |-> Len(history),
                       phase |-> "issued", loaded |-> << >>]]
    /\ UNCHANGED << ledger_vars, overlap, held >>

Issue ==
    \E c \in Clients, op \in {"stamp", "get_stamp"}, file_hash \in ConcurrentHashes :
        IssueCall(c, op, file_hash)

\* Variant: the host starts a call while another one is running.
HostInterleaves(c) == TRUE

\* The host runs one call at a time.
HostSerializes(c) == \A d \in Clients \ {c} : pending[d].phase # "running"

\* The host starts the call of client c: the contract state is loaded.
BeginCall(c) ==
    /\ pending[c].phase = "issued"
    /\ HostSerializes(c)
    /\ pending' = [pending EXCEPT ![c].phase = "running", ![c].loaded = records]
    /\ UNCHANGED << ledger_vars, overlap, held >>

Begin == \E c \in Clients : BeginCall(c)

\* The running stamp of client c completes in a block of timestamp t: the
\* method body on the loaded state, which is then written back.
FinishStamp(c, t) ==
    /\ pending[c].phase = "running"
    /\ pending[c].op = "stamp"
    /\ Len(history) < MaxStamps
    /\ block_timestamp' = t
    /\ log' = Append(log, format_log(pending[c].file_hash, t))
    /\ records' = insert(pending[c].loaded, pending[c].file_hash,
                         stamp_record(pending[c].file_hash, t))
    /\ result' = << >>
    /\ last_call' = [op |-> "stamp", file_hash |-> pending[c].file_hash]
    /\ history' = Append(history, [file_hash |-> pending[c].file_hash, timestamp |-> t])
    /\ replica_block_timestamp' = t
    /\ replica_records' = insert(replica_records, pending[c].file_hash,
                                 stamp_record(pending[c].file_hash, t))
    /\ observed' = [k \in (DOMAIN observed) \ {pending[c].file_hash} |-> observed[k]]
    /\ pending' = [pending EXCEPT ![c] = Idle]
    /\ overlap' = Len(history) - pending[c].seen
    /\ UNCHANGED held

\* The running get_stamp of client c completes in a block of timestamp t:
\* the lookup on the loaded state; nothing is written back.
FinishGetStamp(c, t) ==
    /\ pending[c].phase = "running"
    /\ pending[c].op = "get_stamp"
    /\ block_timestamp' = t
    /\ result' = << get_stamp_value(pending[c].loaded, pending[c].file_hash) >>
    /\ last_call' = [op |-> "get_stamp", file_hash |-> pending[c].file_hash]
    /\ observed' =
          IF pending[c].file_hash \in DOMAIN observed THEN observed
          ELSE insert(observed, pending[c].file_hash,
                      [value |-> get_stamp_value(pending[c].loaded, pending[c].file_hash),
                       at |-> Len(history)])
    /\ pending' = [pending EXCEPT ![c] = Idle]
    /\ overlap' = Len(history) - pending[c].seen
    /\ UNCHANGED << records, log, history, replica_records, replica_block_timestamp,
                    held >>

ExecuteStamp == \E c \in Clients, t \in ConcurrentTimestamps : FinishStamp(c, t)
ExecuteGetStamp == \E c \in Clients, t \in ConcurrentTimestamps : FinishGetStamp(c, t)

NextConcurrent == Issue \/ Begin \/ ExecuteStamp \/ ExecuteGetStamp

SpecConcurrent == Init /\ [][NextConcurrent]_vars

(***************************************************************************)
(* A caller that keeps the TimestampedFile get_stamp returned (an owned    *)
(* value, the clone made at line 47) and may overwrite it later.           *)
(***************************************************************************)
\* The file hashes and block timestamps of this caller's calls.
CallerHashes == { << >>, << 97 >> }
CallerTimestamps == {2, 12}

CallerStamp ==
    \E file_hash \in CallerHashes, t \in CallerTimestamps :
        stamp(file_hash, t) /\ UNCHANGED << pending, overlap, held >>

\* The caller keeps what get_stamp returned.
CallerGetStamp ==
    \E file_hash \in CallerHashes, t \in CallerTimestamps :
        /\ get_stamp(file_hash, t)
        /\ held' = << [file_hash |-> file_hash, value |-> result'[1],
                       taken_at |-> Len(history), modified |-> FALSE] >>
        /\ UNCHANGED << pending, overlap >>

\* The caller overwrites the value it holds.
CallerModify ==
    \E t \in CallerTimestamps :
        /\ held # << >>
        /\ held' = << [held[1] EXCEPT
                         !.value = [timestamp |-> t, time_stamped_file_hash |-> << >>],
                         !.modified = TRUE] >>
        /\ held' # held
        /\ UNCHANGED << ledger_vars, pending, overlap >>

NextCaller == CallerStamp \/ CallerGetStamp \/ CallerModify

SpecCaller == Init /\ [][NextCaller]_vars

(***************************************************************************)
(* Vocabulary of the properties.                                           *)
(***************************************************************************)
\* The positions in history of the stamp calls made for h.
StampIndices(h) == {i \in 1..Len(history) : history[i].file_hash = h}

\* The block timestamp of the latest stamp call made for h.
LastStampTime(h) ==
    history[CHOOSE i \in StampIndices(h) : \A j \in StampIndices(h) : j <= i].timestamp

\* TimestampedFile{timestamp: t, commitment: Hash(h ++ decimal_string(t))}
ExpectedRecord(h, t) ==
    [timestamp |-> t, time_stamped_file_hash |-> keccak256(h \o to_string(t))]

\* TimestampedFile{timestamp: 0, commitment: empty}
Sentinel == [timestamp |-> 0, time_stamped_file_hash |-> << >>]

\* C1 (round trip): a get_stamp(h) that follows a stamp(h) made at block
\* timestamp t, with no stamp(h) in between, returns exactly
\* TimestampedFile{t, keccak256(h ++ decimal_string(t))}.
C1_RoundTrip ==
    (last_call.op = "get_stamp" /\ StampIndices(last_call.file_hash) # {})
        => result = << ExpectedRecord(last_call.file_hash,
                                       LastStampTime(last_call.file_hash)) >>

\* get_stamp("a1") has just returned; "a1" was stamped at timestamp 12 and a
\* stamp of another key followed.
C1_Witness ==
    /\ last_call = [op |-> "get_stamp", file_hash |-> << 97, 49 >>]
    /\ Len(history) = 2
    /\ history[1] = [file_hash |-> << 97, 49 >>, timestamp |-> 12]
    /\ StampIndices(<< 97, 49 >>) = {1}
    /\ result = << ExpectedRecord(<< 97, 49 >>, 12) >>

\* C2 (default on miss): for a key never passed to stamp, get_stamp returns
\* the sentinel {timestamp 0, empty commitment}, in the empty ledger and
\* after any number of stamps of other keys, at any block timestamp.
C2_DefaultOnMiss ==
    /\ \A h \in FileHashes :
          StampIndices(h) = {} => get_stamp_value(records, h) = Sentinel
    /\ (last_call.op = "get_stamp" /\ StampIndices(last_call.file_hash) = {})
          => result = << Sentinel >>

\* get_stamp("a") has just returned the sentinel at block timestamp 12 while
\* two other keys are stamped and "a" never was.
C2_Witness ==
    /\ last_call = [op |-> "get_stamp", file_hash |-> << 97 >>]
    /\ StampIndices(<< 97 >>) = {}
    /\ Cardinality(DOMAIN records) = 2
    /\ block_timestamp = 12
    /\ result = << Sentinel >>

\* C3 (overwrite): once stamp(h) at t1 has been followed by a stamp(h) at
\* t2 # t1 (the latest stamp of h), get_stamp(h) is the t2 record and no
\* key's get_stamp is the t1 record of h.
C3_Overwrite ==
    \A h \in FileHashes :
        \A i \in StampIndices(h) :
            history[i].timestamp # LastStampTime(h) =>
                /\ get_stamp_value(records, h) = ExpectedRecord(h, LastStampTime(h))
                /\ \A k \in FileHashes :
                      get_stamp_value(records, k) # ExpectedRecord(h, history[i].timestamp)
                /\ (last_call = [op |-> "get_stamp", file_hash |-> h]
                      => result = << ExpectedRecord(h, LastStampTime(h)) >>)

\* "a" was stamped at 12 and then at the smaller timestamp 2, and
\* get_stamp("a") has just returned the record of timestamp 2.
C3_Witness ==
    /\ Len(history) = 2
    /\ history[1] = [file_hash |-> << 97 >>, timestamp |-> 12]
    /\ history[2] = [file_hash |-> << 97 >>, timestamp |-> 2]
    /\ last_call = [op |-> "get_stamp", file_hash |-> << 97 >>]
    /\ result = << ExpectedRecord(<< 97 >>, 2) >>

\* C4 (isolation): a stamp(h1) step leaves get_stamp(h2) unchanged for every
\* h2 # h1, present or absent.
C4_Isolation ==
    [][ Len(history') > Len(history) =>
          \A h2 \in FileHashes \ {last_call'.file_hash} :
              /\ (h2 \in DOMAIN records') = (h2 \in DOMAIN records)
              /\ get_stamp_value(records', h2) = get_stamp_value(records, h2) ]_vars

\* stamp("") has just run on a ledger in which "a" is present, stamped
\* earlier, and "a1" is absent.
C4_Witness ==
    /\ last_call = [op |-> "stamp", file_hash |-> << >>]
    /\ Len(history) = 2
    /\ history[1].file_hash = << 97 >>
    /\ records[<< 97 >>] = ExpectedRecord(<< 97 >>, history[1].timestamp)
    /\ << 97, 49 >> \notin DOMAIN records

\* C6 (pure read): a get_stamp step changes neither records nor the log;
\* every step that changes one of them is a stamp step.
C6_GetStampPureRead ==
    [][ /\ last_call'.op = "get_stamp" => (records' = records /\ log' = log)
        /\ (records' # records \/ log' # log) => last_call'.op = "stamp" ]_vars

\* get_stamp has just returned for an absent key on a ledger with two
\* records and two log lines.
C6_Witness ==
    /\ last_call.op = "get_stamp"
    /\ last_call.file_hash \notin DOMAIN records
    /\ Cardinality(DOMAIN records) = 2
    /\ Len(log) = 2

\* C7 (referential transparency): a get_stamp(h) step returns what the first
\* get_stamp(h) since the latest stamp(h) returned, whatever stamps of other
\* keys, reads and timestamp changes happened in between.
C7_ReferentialTransparency ==
    [][ (last_call'.op = "get_stamp" /\ last_call'.file_hash \in DOMAIN observed)
          => result' = << observed[last_call'.file_hash].value >> ]_vars

\* get_stamp("a") has just returned again, at another block timestamp, after
\* a first read of "a" and a later stamp of another key.
C7_Witness ==
    /\ last_call = [op |-> "get_stamp", file_hash |-> << 97 >>]
    /\ << 97 >> \in DOMAIN observed
    /\ << 97 >> \in DOMAIN records
    /\ Len(history) = observed[<< 97 >>].at + 1
    /\ block_timestamp # records[<< 97 >>].timestamp
    /\ result = << observed[<< 97 >>].value >>

\* C8 (no removal): a key present in records stays present in the next
\* state, and its value changes only in a stamp step for that key.
C8_NoRecordRemoved ==
    [][ \A h \in DOMAIN records :
          /\ h \in DOMAIN records'
          /\ records'[h] # records[h] => last_call' = [op |-> "stamp", file_hash |-> h] ]_vars

\* "a1" went from absent to the record of timestamp 2 to the record of
\* timestamp 0, was read in between, and is still present after a get_stamp.
C8_Witness ==
    /\ Len(history) = 2
    /\ history[1] = [file_hash |-> << 97, 49 >>, timestamp |-> 2]
    /\ history[2] = [file_hash |-> << 97, 49 >>, timestamp |-> 0]
    /\ << 97, 49 >> \in DOMAIN records
    /\ last_call.op = "get_stamp"

\* C9 (audit log): the log holds one line per stamp call, in call order, and
\* line i is "Stamping file '<h>' at '<t>'" for the h and t of call i; the
\* line of the latest stamp of a key carries the timestamp stored in its
\* record.  get_stamp adds no line.
C9_AuditLog ==
    /\ Len(log) = Len(history)
    /\ \A i \in 1..Len(history) :
          log[i] = format_log(history[i].file_hash, history[i].timestamp)
    /\ \A h \in DOMAIN records :
          StampIndices(h) # {} /\
          log[CHOOSE i \in StampIndices(h) : \A j \in StampIndices(h) : j <= i]
              = format_log(h, records[h].timestamp)

\* Two stamps at different timestamps and a get_stamp afterwards: two log
\* lines, the second one "Stamping file 'a1' at '12'".
C9_Witness ==
    /\ Len(history) = 2
    /\ history[1].timestamp # history[2].timestamp
    /\ last_call.op = "get_stamp"
    /\ log[2] = << 83, 116, 97, 109, 112, 105, 110, 103, 32, 102, 105, 108, 101,
                   32, 39, 97, 49, 39, 32, 97, 116, 32, 39, 49, 50, 39 >>

\* The values of the type TimestampedFile that the model can hold.
IsTimestampedFile(v) ==
    /\ DOMAIN v = {"timestamp", "time_stamped_file_hash"}
    /\ v.timestamp \in Nat
    /\ Len(v.time_stamped_file_hash) \in {0, 32}
    /\ \A i \in 1..Len(v.time_stamped_file_hash) : v.time_stamped_file_hash[i] \in 0..255

\* C10 (totality): every call completes normally.  get_stamp can run for
\* every key and timestamp and returns a TimestampedFile, also for a
\* missing key and for the empty string; stamp can run for every key and
\* timestamp and ends with a record stored under its key.
C10_Totality ==
    /\ \A h \in FileHashes, t \in BlockTimestamps :
          /\ ENABLED get_stamp(h, t)
          /\ Len(history) < MaxStamps => ENABLED stamp(h, t)
    /\ last_call.op = "get_stamp" =>
          /\ Len(result) = 1
          /\ IsTimestampedFile(result[1])
    /\ last_call.op = "stamp" =>
          /\ result = << >>
          /\ last_call.file_hash \in DOMAIN records
          /\ IsTimestampedFile(records[last_call.file_hash])

\* The empty string is stamped, and get_stamp of a missing key has just
\* returned a TimestampedFile.
C10_Witness ==
    /\ << >> \in DOMAIN records
    /\ last_call.op = "get_stamp"
    /\ last_call.file_hash \notin DOMAIN records
    /\ IsTimestampedFile(result[1])

\* C12 (commitment invariant): every stored record's commitment is
\* keccak256(key ++ decimal_string(timestamp)), in both instances; records
\* with the same key and timestamp therefore carry the same commitment.
C12_CommitmentInvariant ==
    /\ \A h \in DOMAIN records :
          records[h].time_stamped_file_hash
              = keccak256(h \o to_string(records[h].timestamp))
    /\ \A h \in DOMAIN replica_records :
          replica_records[h].time_stamped_file_hash
              = keccak256(h \o to_string(replica_records[h].timestamp))
    /\ \A h \in (DOMAIN records) \cap (DOMAIN replica_records) :
          records[h].timestamp = replica_records[h].timestamp
              => records[h].time_stamped_file_hash
                     = replica_records[h].time_stamped_file_hash

\* "" is stored with timestamp 12 and "a1" with timestamp 0, in both
\* instances.
C12_Witness ==
    /\ DOMAIN records = { << >>, << 97, 49 >> }
    /\ records[<< >>].timestamp = 12
    /\ records[<< 97, 49 >>].timestamp = 0
    /\ replica_records = records

\* C13 as stated (sentinel ambiguity): get_stamp of a key whose stamp was
\* made at block timestamp 0 returns the value returned for a key that was
\* never stamped.
C13_SentinelAmbiguity ==
    \A h \in FileHashes :
        (StampIndices(h) # {} /\ LastStampTime(h) = 0)
            => get_stamp_value(records, h) = Sentinel

\* C13 as amended: a key stamped at block timestamp 0 reads with the
\* sentinel's timestamp 0 but with a 32-byte commitment, so for a stamped key
\* get_stamp never returns the value it returns for a never-stamped key.
C13_TimestampOnlyAmbiguity ==
    \A h \in FileHashes :
        StampIndices(h) # {} =>
            /\ get_stamp_value(records, h) # Sentinel
            /\ Len(get_stamp_value(records, h).time_stamped_file_hash) = 32
            /\ LastStampTime(h) = 0 =>
                  get_stamp_value(records, h).timestamp = Sentinel.timestamp

\* "a" was stamped at block timestamp 0 and get_stamp("a") has just returned
\* timestamp 0, while "a1" was never stamped.
C13_Witness ==
    /\ StampIndices(<< 97 >>) # {}
    /\ LastStampTime(<< 97 >>) = 0
    /\ StampIndices(<< 97, 49 >>) = {}
    /\ last_call = [op |-> "get_stamp", file_hash |-> << 97 >>]
    /\ result[1].timestamp = 0

\* C14 (concatenation collisions): two stored records whose key and decimal
\* timestamp concatenate to the same bytes carry the same commitment, also
\* when their keys and timestamps differ.
C14_ConcatenationCollision ==
    \A h1 \in DOMAIN records, h2 \in DOMAIN records :
        h1 \o to_string(records[h1].timestamp) = h2 \o to_string(records[h2].timestamp)
            => records[h1].time_stamped_file_hash = records[h2].time_stamped_file_hash

\* ("a1", 2) and ("a", 12) are both stored: different keys, different
\* timestamps, the same 32 commitment bytes.
C14_Witness ==
    /\ << 97, 49 >> \in DOMAIN records
    /\ << 97 >> \in DOMAIN records
    /\ records[<< 97, 49 >>].timestamp = 2
    /\ records[<< 97 >>].timestamp = 12
    /\ Len(records[<< 97 >>].time_stamped_file_hash) = 32
    /\ records[<< 97, 49 >>].time_stamped_file_hash = records[<< 97 >>].time_stamped_file_hash

\* C16 (key set): the keys of records are exactly the file hashes passed to
\* stamp so far.
C16_KeySet ==
    DOMAIN records = {history[i].file_hash : i \in 1..Len(history)}

\* "" and "a1" were stamped, "a" was only read: records has the keys "" and
\* "a1" and not "a".
C16_Witness ==
    /\ {history[i].file_hash : i \in 1..Len(history)} = { << >>, << 97, 49 >> }
    /\ last_call = [op |-> "get_stamp", file_hash |-> << 97 >>]
    /\ << 97 >> \notin DOMAIN records
    /\ Cardinality(DOMAIN records) = 2

\* The timestamp of the latest entry for h in the sequence of stamps hist.
LastTimeIn(hist, h) ==
    hist[CHOOSE i \in 1..Len(hist) :
            /\ hist[i].file_hash = h
            /\ \A j \in (i + 1)..Len(hist) : hist[j].file_hash # h].timestamp

\* C18 (re-stamp idempotence): a stamp(h) step at the timestamp of the
\* latest stamp of h leaves records as it was and adds one log line; after
\* every step records holds, for each stamped key, the record of its latest
\* (h, t) stamp and nothing else.
C18_RestampIdempotence ==
    [][ /\ (/\ Len(history') > Len(history)
            /\ last_call'.file_hash \in DOMAIN records
            /\ records[last_call'.file_hash].timestamp = block_timestamp')
           => (records' = records /\ Len(log') = Len(log) + 1)
        /\ records' = [h \in {history'[i].file_hash : i \in 1..Len(history')} |->
                          ExpectedRecord(h, LastTimeIn(history', h))] ]_vars

\* "a" was stamped twice at block timestamp 2: one record, two log lines.
C18_Witness ==
    /\ history = << [file_hash |-> << 97 >>, timestamp |-> 2],
                    [file_hash |-> << 97 >>, timestamp |-> 2] >>
    /\ DOMAIN records = { << 97 >> }
    /\ records[<< 97 >>].timestamp = 2
    /\ Len(log) = 2
    /\ log[1] = log[2]

\* C17 (per-key timestamp monotonicity): when block timestamps never
\* decrease from call to call, no step decreases the timestamp get_stamp
\* reports for any key, and after every step that timestamp is at most the
\* current block timestamp.
C17_TimestampMonotonic ==
    [][ \A h \in FileHashes :
          /\ get_stamp_value(records', h).timestamp >= get_stamp_value(records, h).timestamp
          /\ get_stamp_value(records', h).timestamp <= block_timestamp' ]_vars

\* "a" was stamped at 2 and again at 12, and get_stamp("a") has just returned
\* timestamp 12 in a block of timestamp 12.
C17_Witness ==
    /\ history = << [file_hash |-> << 97 >>, timestamp |-> 2],
                    [file_hash |-> << 97 >>, timestamp |-> 12] >>
    /\ last_call = [op |-> "get_stamp", file_hash |-> << 97 >>]
    /\ block_timestamp = 12
    /\ result[1].timestamp = 12

\* C11 (call-level atomicity): with calls of several clients in flight, a
\* running call is alone and the state it loaded is still the stored one, so
\* no other call takes effect between its read and its write; records is
\* what the completed stamps give when applied one after the other in their
\* order of completion (a stamp is lost only to a later stamp of its key);
\* and a completed get_stamp has returned the stored value whole: the
\* sentinel or a record whose commitment belongs to its timestamp.
C11_CallAtomicity ==
    /\ \A c \in Clients :
          pending[c].phase = "running" =>
              /\ pending[c].loaded = records
              /\ \A d \in Clients \ {c} : pending[d].phase # "running"
    /\ \A i \in 1..Len(history) : history[i].file_hash \in DOMAIN records
    /\ \A h \in DOMAIN records :
          /\ StampIndices(h) # {}
          /\ records[h] = ExpectedRecord(h, LastStampTime(h))
    /\ last_call.op = "get_stamp" =>
          /\ result = << get_stamp_value(records, last_call.file_hash) >>
          /\ \/ result[1] = Sentinel
             \/ result[1] = ExpectedRecord(last_call.file_hash, result[1].timestamp)

\* get_stamp("a") of client 1 was in flight while two stamps of "a" at
\* different timestamps completed; it has now returned the whole record of
\* the second one, while client 2 has a stamp of "a1" waiting to start.
C11_Witness ==
    /\ last_call = [op |-> "get_stamp", file_hash |-> << 97 >>]
    /\ overlap = 2
    /\ pending[1] = Idle
    /\ pending[2].op = "stamp"
    /\ pending[2].file_hash = << 97, 49 >>
    /\ pending[2].phase = "issued"
    /\ history[1].file_hash = << 97 >>
    /\ history[2].file_hash = << 97 >>
    /\ history[1].timestamp # history[2].timestamp
    /\ result = << ExpectedRecord(<< 97 >>, history[2].timestamp) >>

\* What the caller reads in the value it holds: the value itself, or, had it
\* been handed a reference into the map, the record the reference points to.
HeldValue ==
    IF "ref" \in DOMAIN held[1].value
    THEN records[held[1].value.ref]
    ELSE held[1].value

\* C15 (copies on read): a stamp step changes nothing in the value a caller
\* holds from an earlier get_stamp, and a caller's overwrite of the value it
\* holds changes neither records nor the result of get_stamp for any key.
C15_CopiesOnRead ==
    [][ /\ (Len(history') > Len(history) /\ held # << >>)
           => (held' = held /\ HeldValue' = HeldValue)
        /\ (held' # << >> /\ held'[1].modified /\ held' # held)
           => /\ records' = records
              /\ \A h \in FileHashes :
                    get_stamp_value(records', h) = get_stamp_value(records, h) ]_vars

\* The caller read "a" after its first stamp; "a" was then stamped again at
\* another timestamp, and the caller overwrote its copy: records holds the
\* record of the second stamp, the caller its own value.
C15_Witness ==
    /\ held # << >>
    /\ held[1].file_hash = << 97 >>
    /\ held[1].taken_at = 1
    /\ held[1].modified
    /\ Len(history) = 2
    /\ history[1].file_hash = << 97 >>
    /\ history[2].file_hash = << 97 >>
    /\ history[1].timestamp # history[2].timestamp
    /\ records[<< 97 >>] = ExpectedRecord(<< 97 >>, history[2].timestamp)
    /\ held[1].value # records[<< 97 >>]

====
